---- MODULE Spec2Model ----
(***************************************************************************)
(* Regulatory-capital inequality constraints of ineq_constraints.py.       *)
(*                                                                         *)
(* Ten functions (srwa_cet1 .. lev_t1) take a balance vector x, a         *)
(* reference table df and a vector of minimum ratios, and return one       *)
(* number.  Each call is modelled as a frame that is stepped one loop      *)
(* iteration at a time; the numbers are integers (fixed point: the code    *)
(* does the same arithmetic on them, without rounding).  Floating-point   *)
(* rounding and the 64-bit range of numpy integers are not modelled.       *)
(***************************************************************************)
EXTENDS Integers, Sequences, FiniteSets, TLC

VARIABLES x, df, mins, calls

vars == <<x, df, mins, calls>>

(***************************************************************************)
(* Bounds of the model.                                                    *)
(***************************************************************************)
\* most rows of a reference table
MaxRows == 2
\* largest magnitude of a weight or balance of the single-row signed inputs,
\* largest balance of the positive inputs
MaxMagnitude == 1
\* largest magnitude of the scalar k in the scaling properties
MaxScalar == 2

(***************************************************************************)
(* The functions and the columns each of them names.                       *)
(***************************************************************************)
SRWA == {"srwa_cet1", "srwa_t1", "srwa_tc", "srwa_tlac"}
ARWA == {"arwa_cet1", "arwa_t1", "arwa_tc", "arwa_tlac"}
LEV == {"lev_cet1", "lev_t1"}
RWA == SRWA \cup ARWA
Functions == RWA \cup LEV

\* df['cet1_contr_per_balance']
GsibColumn == "cet1_contr_per_balance"

HasGsibAlways(fn) == TRUE

\* whether the function computes a GSIB add-on (the leverage functions have
\* no gsib_addon, no gsib_cont and no first loop)
HasGsib(fn) == fn \in RWA

\* the weight column: df['s_rwa'], df['a_rwa'] or df['b1_leverage']
RiskWeightColumn(fn) ==
    IF fn \in SRWA THEN "s_rwa"
    ELSE IF fn \in ARWA THEN "a_rwa"
    ELSE "b1_leverage"

\* the resource column of the function
ResourceColumn(fn) ==
    IF fn \in {"srwa_cet1", "arwa_cet1", "lev_cet1"} THEN "CET1_resource"
    ELSE IF fn \in {"srwa_t1", "arwa_t1", "lev_t1"} THEN "T1_resource"
    ELSE IF fn \in {"srwa_tc", "arwa_tc"} THEN "total_capital_resource"
    ELSE "TLAC_resource"

MinIndexFirst(fn) == 0

\* the (0-based) index into the vector of minimums: sRWA_mins[0] .. [3]
MinIndex(fn) ==
    IF fn \in {"srwa_cet1", "arwa_cet1", "lev_cet1"} THEN 0
    ELSE IF fn \in {"srwa_t1", "arwa_t1", "lev_t1"} THEN 1
    ELSE IF fn \in {"srwa_tc", "arwa_tc"} THEN 2
    ELSE 3

\* the columns a function reads, in the order of its np.array(df[...]) lines
ReadOrder(fn) ==
    IF HasGsib(fn)
    THEN <<GsibColumn, RiskWeightColumn(fn), ResourceColumn(fn)>>
    ELSE <<RiskWeightColumn(fn), ResourceColumn(fn)>>

ReadSet(fn) == {ReadOrder(fn)[j] : j \in 1..Len(ReadOrder(fn))}

(***************************************************************************)
(* Outcomes of a call and the frame of a call.                             *)
(***************************************************************************)
NoOutcome == [kind |-> "none", value |-> 0, key |-> ""]
Return(v) == [kind |-> "return", value |-> v, key |-> ""]
IndexError == [kind |-> "IndexError", value |-> 0, key |-> ""]
KeyError(col) == [kind |-> "KeyError", value |-> 0, key |-> col]

Idle ==
    [pc |-> "idle", fn |-> "none", i |-> 0, gsib_addon |-> 0, constraint |-> 0,
     gsib_cont |-> <<>>, rwa |-> <<>>, resource |-> <<>>, outcome |-> NoOutcome]

\* the call has ended (returned or raised); its locals are gone
Done(fn, out) == [Idle EXCEPT !.pc = "done", !.fn = fn, !.outcome = out]

\* the first column of ReadOrder(fn) the table lacks, 0 if it has them all
FirstMissing(fn, table) ==
    LET miss == {j \in 1..Len(ReadOrder(fn)) : ReadOrder(fn)[j] \notin DOMAIN table}
    IN  IF miss = {} THEN 0 ELSE CHOOSE j \in miss : \A k \in miss : j <= k

\* the function's body up to its first loop: gsib_addon = 0, the np.array
\* copies of the columns, constraint = 0.  df[col] raises KeyError for a
\* column the table lacks.
Enter(fn, table) ==
    IF FirstMissing(fn, table) # 0
    THEN Done(fn, KeyError(ReadOrder(fn)[FirstMissing(fn, table)]))
    ELSE [pc |-> IF HasGsib(fn) THEN "gsib" ELSE "constraint",
          fn |-> fn, i |-> 0, gsib_addon |-> 0, constraint |-> 0,
          gsib_cont |-> IF HasGsib(fn) THEN table[GsibColumn] ELSE <<>>,
          rwa |-> table[RiskWeightColumn(fn)],
          resource |-> table[ResourceColumn(fn)],
          outcome |-> NoOutcome]

\* gsib_addon += x[i] * gsib_cont[i]
GsibTerm(addon, xi, gi) == addon + xi * gi

ConstraintTermNoBalance(c, m, addon, wi, xi, ri) == c + (-((m + addon) * wi) + ri * xi)
ConstraintTermNoAddon(c, m, addon, wi, xi, ri) == c + (-(m * wi * xi) + ri * xi)
ConstraintTermAddonSign(c, m, addon, wi, xi, ri) == c + (-((m - addon) * wi * xi) + ri * xi)
ConstraintTermSign(c, m, addon, wi, xi, ri) == c + (((m + addon) * wi * xi) + ri * xi)

\* constraint += -((mins[k] + gsib_addon) * rwa[i] * x[i]) + resource[i] * x[i]
ConstraintTerm(c, m, addon, wi, xi, ri) == c + (-((m + addon) * wi * xi) + ri * xi)

LevTermNoBalance(c, m, wi, xi, ri) == c + (-(m * wi) + ri * xi)

\* constraint += -(lev_mins[k] * b1_lev[i] * x[i]) + resource[i] * x[i]
LevTerm(c, m, wi, xi, ri) == c + (-(m * wi * xi) + ri * xi)

\* one pass of "for i in range(len(x)): gsib_addon += ..." (an iteration, or
\* the end of the loop); gsib_cont[i] raises IndexError past the column's end
GsibLoopStep(f, xs) ==
    IF f.i < Len(xs)
    THEN IF f.i + 1 > Len(f.gsib_cont)
         THEN Done(f.fn, IndexError)
         ELSE [f EXCEPT !.gsib_addon = GsibTerm(@, xs[f.i + 1], f.gsib_cont[f.i + 1]),
                        !.i = @ + 1]
    ELSE [f EXCEPT !.pc = "constraint", !.i = 0]

ConstraintLoopStepTruncating(f, xs, ms) ==
    IF f.i < Len(xs) /\ f.i < Len(f.rwa)
    THEN [f EXCEPT !.constraint =
                       IF HasGsib(f.fn)
                       THEN ConstraintTerm(@, ms[MinIndex(f.fn) + 1], f.gsib_addon,
                                           f.rwa[f.i + 1], xs[f.i + 1],
                                           f.resource[f.i + 1])
                       ELSE LevTerm(@, ms[MinIndex(f.fn) + 1], f.rwa[f.i + 1],
                                    xs[f.i + 1], f.resource[f.i + 1]),
                   !.i = @ + 1]
    ELSE Done(f.fn, Return(f.constraint))

\* one pass of "for i in range(len(x)): constraint += ..." (an iteration, or
\* the end of the loop and the return); mins[k], rwa[i] and resource[i]
\* raise IndexError past the end
ConstraintLoopStep(f, xs, ms) ==
    IF f.i < Len(xs)
    THEN IF \/ MinIndex(f.fn) + 1 > Len(ms)
            \/ f.i + 1 > Len(f.rwa)
            \/ f.i + 1 > Len(f.resource)
         THEN Done(f.fn, IndexError)
         ELSE [f EXCEPT !.constraint =
                            IF HasGsib(f.fn)
                            THEN ConstraintTerm(@, ms[MinIndex(f.fn) + 1], f.gsib_addon,
                                                f.rwa[f.i + 1], xs[f.i + 1],
                                                f.resource[f.i + 1])
                            ELSE LevTerm(@, ms[MinIndex(f.fn) + 1], f.rwa[f.i + 1],
                                         xs[f.i + 1], f.resource[f.i + 1]),
                        !.i = @ + 1]
    ELSE Done(f.fn, Return(f.constraint))

\* the next frame of a call in progress
StepFrame(f, xs, ms) ==
    IF f.pc = "gsib" THEN GsibLoopStep(f, xs) ELSE ConstraintLoopStep(f, xs, ms)

RECURSIVE Run(_, _, _)
\* the call run to its end, on its own
Run(f, xs, ms) == IF f.pc = "done" THEN f.outcome ELSE Run(StepFrame(f, xs, ms), xs, ms)

\* fn(xs, table, ms) as one call made alone
Eval(fn, xs, table, ms) == Run(Enter(fn, table), xs, ms)

(***************************************************************************)
(* The inputs a run starts from.  The caller owns x, df and mins; a table  *)
(* is a function from the names of its columns to columns of one length.   *)
(***************************************************************************)
WeightColumns == {"s_rwa", "a_rwa"}
ResourceColumns == {"CET1_resource", "T1_resource", "total_capital_resource",
                    "TLAC_resource"}
LevResourceColumns == {"CET1_resource", "T1_resource"}
AllColumns == {GsibColumn, "b1_leverage"} \cup WeightColumns \cup ResourceColumns

\* tables that hold the columns of one RWA constraint, of one leverage
\* constraint, or of one leverage constraint and the GSIB column
ColumnSets ==
    {{GsibColumn, w, r} : w \in WeightColumns, r \in ResourceColumns}
    \cup {{"b1_leverage", r} : r \in LevResourceColumns}
    \cup {{GsibColumn, "b1_leverage", r} : r \in LevResourceColumns}

Tables(cs, n, vals) == [cs -> [1..n -> vals]]

\* minimum ratios rising by tier from m: CET1, T1, total capital, TLAC
Ladder(m) == <<m, m + 1, m + 2, m + 3>>

Rows(table) == Len(table[CHOOSE c \in DOMAIN table : TRUE])

\* the spec's concrete scenario in fixed point: thresholds in 1/1000, risk
\* weights in 1/2, resource weights (and so the result) in 1/2000
ScenarioX == <<100, 200>>
ScenarioDf == (GsibColumn :> <<0, 0>>) @@ ("s_rwa" :> <<1, 2>>)
              @@ ("CET1_resource" :> <<2000, 0>>)
ScenarioMins == <<45, 60, 80, 180>>

\* 0/1 tables and balances of matching length, up to MaxRows rows
InitIndicator ==
    \E n \in 1..MaxRows : \E cs \in ColumnSets :
        /\ df \in Tables(cs, n, {0, 1})
        /\ x \in [1..n -> {0, 1}]
        /\ mins = Ladder(1)

\* one line item with signed weights, balance and minimums
InitSigned ==
    \E cs \in ColumnSets :
        /\ df \in Tables(cs, 1, -MaxMagnitude..MaxMagnitude)
        /\ x \in [1..1 -> -MaxMagnitude..MaxMagnitude]
        /\ mins \in {Ladder(-1), Ladder(1)}

\* two line items with weights and balances of either sign
InitSignedPair ==
    \E cs \in ColumnSets :
        /\ df \in Tables(cs, 2, {-1, 0, 1})
        /\ x \in [1..2 -> {-1, 0, 1}]
        /\ mins = Ladder(1)

\* a balance vector shorter or longer than the table
InitMisaligned ==
    \E n \in 1..MaxRows : \E len \in (0..(MaxRows + 1)) \ {n} : \E cs \in ColumnSets :
        /\ df \in Tables(cs, n, {1, 2})
        /\ x = [j \in 1..len |-> 1]
        /\ mins = Ladder(1)

\* a vector of minimums with two entries only
InitShortMins ==
    \E n \in 1..MaxRows : \E cs \in ColumnSets :
        /\ df \in Tables(cs, n, {1})
        /\ x \in [1..n -> 1..MaxMagnitude]
        /\ mins = <<1, 2>>

InitScenario == x = ScenarioX /\ df = ScenarioDf /\ mins = ScenarioMins

\* a table with every column, all weights 1
InitFullTable ==
    \E n \in 1..MaxRows :
        /\ df \in Tables(AllColumns, n, {1})
        /\ x \in [1..n -> 1..MaxMagnitude]
        /\ mins = Ladder(1)

Init ==
    /\ \/ InitIndicator \/ InitSigned \/ InitSignedPair
       \/ InitMisaligned \/ InitShortMins \/ InitScenario
    /\ calls = [t \in {1} |-> Idle]

InitConcurrent ==
    /\ InitFullTable
    /\ calls = [t \in {1, 2} |-> Idle]

(***************************************************************************)
(* The actions: a call of one of the ten functions by thread t, and the    *)
(* passes of its loops.                                                    *)
(***************************************************************************)
\* thread t calls fn(x, df, mins); a thread makes one call in a run
Call(t, fn) ==
    /\ calls[t].pc = "idle"
    /\ calls' = [calls EXCEPT ![t] = Enter(fn, df)]
    /\ UNCHANGED <<x, df, mins>>

srwa_cet1(t) == Call(t, "srwa_cet1")
srwa_t1(t) == Call(t, "srwa_t1")
srwa_tc(t) == Call(t, "srwa_tc")
srwa_tlac(t) == Call(t, "srwa_tlac")
arwa_cet1(t) == Call(t, "arwa_cet1")
arwa_t1(t) == Call(t, "arwa_t1")
arwa_tc(t) == Call(t, "arwa_tc")
arwa_tlac(t) == Call(t, "arwa_tlac")
lev_cet1(t) == Call(t, "lev_cet1")
lev_t1(t) == Call(t, "lev_t1")

GsibLoop(t) ==
    /\ calls[t].pc = "gsib"
    /\ calls' = [calls EXCEPT ![t] = GsibLoopStep(calls[t], x)]
    /\ UNCHANGED <<x, df, mins>>

\* the bug of an accumulator kept outside the function, shared by the calls
ConstraintLoopShared(t) ==
    /\ calls[t].pc = "constraint"
    /\ LET f == ConstraintLoopStep(calls[t], x, mins)
       IN  calls' = [u \in DOMAIN calls |->
                        IF u = t THEN f
                        ELSE IF calls[u].pc = "constraint" /\ f.pc = "constraint"
                             THEN [calls[u] EXCEPT !.constraint = f.constraint]
                             ELSE calls[u]]
    /\ UNCHANGED <<x, df, mins>>

ConstraintLoop(t) ==
    /\ calls[t].pc = "constraint"
    /\ calls' = [calls EXCEPT ![t] = ConstraintLoopStep(calls[t], x, mins)]
    /\ UNCHANGED <<x, df, mins>>

Next ==
    \/ \E t \in DOMAIN calls : srwa_cet1(t)
    \/ \E t \in DOMAIN calls : srwa_t1(t)
    \/ \E t \in DOMAIN calls : srwa_tc(t)
    \/ \E t \in DOMAIN calls : srwa_tlac(t)
    \/ \E t \in DOMAIN calls : arwa_cet1(t)
    \/ \E t \in DOMAIN calls : arwa_t1(t)
    \/ \E t \in DOMAIN calls : arwa_tc(t)
    \/ \E t \in DOMAIN calls : arwa_tlac(t)
    \/ \E t \in DOMAIN calls : lev_cet1(t)
    \/ \E t \in DOMAIN calls : lev_t1(t)
    \/ \E t \in DOMAIN calls : GsibLoop(t)
    \/ \E t \in DOMAIN calls : ConstraintLoop(t)

Spec == Init /\ [][Next]_vars

SpecConcurrent == InitConcurrent /\ [][Next]_vars

(***************************************************************************)
(* What the properties are stated with: the sums of the specification,     *)
(* written from its formulas, and the columns and threshold index it binds *)
(* to each function.                                                       *)
(***************************************************************************)
Sum(s) ==
    LET S[n \in 0..Len(s)] == IF n = 0 THEN 0 ELSE S[n - 1] + s[n]
    IN  S[Len(s)]

\* the sum over the line items of x of a[i] * x[i]
Weighted(a) == Sum([j \in 1..Len(x) |-> a[j] * x[j]])

SpecWeight(fn) ==
    CASE fn \in {"srwa_cet1", "srwa_t1", "srwa_tc", "srwa_tlac"} -> "s_rwa"
      [] fn \in {"arwa_cet1", "arwa_t1", "arwa_tc", "arwa_tlac"} -> "a_rwa"
      [] fn \in {"lev_cet1", "lev_t1"} -> "b1_leverage"

SpecResource(fn) ==
    CASE fn \in {"srwa_cet1", "arwa_cet1", "lev_cet1"} -> "CET1_resource"
      [] fn \in {"srwa_t1", "arwa_t1", "lev_t1"} -> "T1_resource"
      [] fn \in {"srwa_tc", "arwa_tc"} -> "total_capital_resource"
      [] fn \in {"srwa_tlac", "arwa_tlac"} -> "TLAC_resource"

SpecThreshold(fn) ==
    CASE fn \in {"srwa_cet1", "arwa_cet1", "lev_cet1"} -> mins[1]
      [] fn \in {"srwa_t1", "arwa_t1", "lev_t1"} -> mins[2]
      [] fn \in {"srwa_tc", "arwa_tc"} -> mins[3]
      [] fn \in {"srwa_tlac", "arwa_tlac"} -> mins[4]

SpecColumns(fn) ==
    IF fn \in LEV THEN {SpecWeight(fn), SpecResource(fn)}
    ELSE {GsibColumn, SpecWeight(fn), SpecResource(fn)}

\* the add-on of the specification: the total over all line items (of x)
SpecAddon(fn) == IF fn \in LEV THEN 0 ELSE Weighted(df[GsibColumn])

\* sum_i ( resource[i]*x[i] - (threshold + addon) * weight[i]*x[i] )
SpecConstraint(fn) ==
    Sum([j \in 1..Len(x) |->
            df[SpecResource(fn)][j] * x[j]
            - (SpecThreshold(fn) + SpecAddon(fn)) * df[SpecWeight(fn)][j] * x[j]])

\* the table has the columns of fn and the vector of minimums its four entries
Callable(fn) == SpecColumns(fn) \subseteq DOMAIN df /\ Len(mins) = 4

\* the inputs of a call of fn that respects the data model: x and the table
\* of one length
WellFormed(fn) == Callable(fn) /\ Len(x) = Rows(df)

Ended(t) == calls[t].pc = "done"
Returned(t) == Ended(t) /\ calls[t].outcome.kind = "return"

Scale(k, xs) == [j \in 1..Len(xs) |-> k * xs[j]]

WithGsib(table, g) ==
    [c \in DOMAIN table \cup {GsibColumn} |-> IF c = GsibColumn THEN g ELSE table[c]]

WithoutGsib(table) == [c \in DOMAIN table \ {GsibColumn} |-> table[c]]

ZeroColumn(n) == [j \in 1..n |-> 0]

AllOf(s, P(_)) == \A j \in 1..Len(s) : P(s[j])
SomeOf(s, P(_)) == \E j \in 1..Len(s) : P(s[j])
IsZero(v) == v = 0
NonZero(v) == v # 0
Positive(v) == v > 0
NonNegative(v) == v >= 0

(***************************************************************************)
(* C1.  On inputs of matching length each of the eight RWA functions       *)
(* returns sum_i (resource[i]*x[i] - (mins[k] + sum_j x[j]*gsib[j]) *      *)
(* rw[i]*x[i]) with the columns and index k the specification binds to it; *)
(* on the scenario (balances 100, 200) srwa_cet1 returns 88.75, which is   *)
(* 177500 in units of 1/2000.                                              *)
(***************************************************************************)
C1_RwaFormula ==
    \A t \in DOMAIN calls :
        (Ended(t) /\ calls[t].fn \in RWA /\ WellFormed(calls[t].fn)) =>
            /\ calls[t].outcome = Return(SpecConstraint(calls[t].fn))
            /\ (x = ScenarioX /\ df = ScenarioDf /\ mins = ScenarioMins
                    /\ calls[t].fn = "srwa_cet1")
                => calls[t].outcome.value = 177500

C1_Witness ==
    \E t \in DOMAIN calls :
        /\ Returned(t) /\ calls[t].fn = "arwa_tlac" /\ WellFormed("arwa_tlac")
        /\ Len(x) = 2
        /\ SpecAddon("arwa_tlac") # 0
        /\ Weighted(df["a_rwa"]) # 0
        /\ Weighted(df["TLAC_resource"]) # 0

C3_MismatchFails ==
    \A t \in DOMAIN calls :
        (Ended(t) /\ Callable(calls[t].fn) /\ Len(x) # Rows(df)) =>
            calls[t].outcome.kind # "return"

(***************************************************************************)
(* C4.  For a balance vector of zeros each of the ten functions returns    *)
(* exactly 0, whatever the thresholds and weights.                         *)
(***************************************************************************)
C4_ZeroBalances ==
    \A t \in DOMAIN calls :
        (Ended(t) /\ WellFormed(calls[t].fn) /\ AllOf(x, IsZero)) =>
            calls[t].outcome = Return(0)

C4_Witness ==
    \E t \in DOMAIN calls :
        /\ Returned(t) /\ calls[t].fn \in RWA /\ WellFormed(calls[t].fn)
        /\ Len(x) = 2 /\ AllOf(x, IsZero)
        /\ \A c \in DOMAIN df : AllOf(df[c], NonZero)

(***************************************************************************)
(* C5.  The leverage constraints are linear in the balances:               *)
(* lev(k*x) = k*lev(x) for every scalar k.                                 *)
(***************************************************************************)
C5_LevLinear ==
    \A t \in DOMAIN calls :
        (Ended(t) /\ calls[t].fn \in LEV /\ WellFormed(calls[t].fn)) =>
            \A k \in -MaxScalar..MaxScalar :
                Eval(calls[t].fn, Scale(k, x), df, mins)
                    = Return(k * calls[t].outcome.value)

C5_Witness ==
    \E t \in DOMAIN calls :
        /\ Returned(t) /\ calls[t].fn = "lev_cet1" /\ WellFormed("lev_cet1")
        /\ Len(x) = 2 /\ AllOf(x, NonZero)
        /\ calls[t].outcome.value # 0

(***************************************************************************)
(* C6.  As claimed: for each of the eight GSIB-bearing functions, doubling *)
(* the balances never doubles the result, f(2*x) # 2*f(x) for every x.     *)
(***************************************************************************)
C6_NeverDoubles ==
    \A t \in DOMAIN calls :
        (Ended(t) /\ calls[t].fn \in RWA /\ WellFormed(calls[t].fn)) =>
            Eval(calls[t].fn, Scale(2, x), df, mins)
                # Return(2 * calls[t].outcome.value)

(***************************************************************************)
(* C6, amended.  f(2*x) = 2*f(x) - 2 * (sum_j x[j]*gsib[j]) *              *)
(* (sum_i rw[i]*x[i]): doubling the balances fails to double the result    *)
(* exactly when the add-on and the risk-weighted total are both nonzero.   *)
(***************************************************************************)
C6_QuadraticTerm ==
    \A t \in DOMAIN calls :
        (Ended(t) /\ calls[t].fn \in RWA /\ WellFormed(calls[t].fn)) =>
            LET fn == calls[t].fn
                v == calls[t].outcome.value
                cross == SpecAddon(fn) * Weighted(df[SpecWeight(fn)])
                doubled == Eval(fn, Scale(2, x), df, mins)
            IN  /\ calls[t].outcome.kind = "return"
                /\ doubled = Return(2 * v - 2 * cross)
                /\ (doubled # Return(2 * v)) <=> (cross # 0)

C6_Witness ==
    \E t \in DOMAIN calls :
        /\ Returned(t) /\ calls[t].fn = "srwa_t1" /\ WellFormed("srwa_t1")
        /\ Len(x) = 2
        /\ SpecAddon("srwa_t1") * Weighted(df["s_rwa"]) # 0
        /\ Eval("srwa_t1", Scale(2, x), df, mins) # Return(2 * calls[t].outcome.value)

(***************************************************************************)
(* C7.  As claimed: for positive balances and any thresholds, risk weights *)
(* and resources, a GSIB column with a nonzero entry gives a result        *)
(* strictly less than the all-zero GSIB column does.                       *)
(***************************************************************************)
C7_GsibStrictlyTightens ==
    \A t \in DOMAIN calls :
        (/\ Ended(t) /\ calls[t].fn \in RWA /\ WellFormed(calls[t].fn)
         /\ AllOf(x, Positive)
         /\ SomeOf(df[GsibColumn], NonZero)) =>
            /\ calls[t].outcome.kind = "return"
            /\ calls[t].outcome.value
                   < Eval(calls[t].fn, x, WithGsib(df, ZeroColumn(Rows(df))), mins).value

(***************************************************************************)
(* C7, amended.  For positive balances the result with the GSIB column is  *)
(* strictly less than with the all-zero column exactly when                *)
(* (sum_j x[j]*gsib[j]) * (sum_i rw[i]*x[i]) > 0; that is so whenever the  *)
(* GSIB contributions and the risk weights are nonnegative and each has a  *)
(* positive entry.                                                         *)
(***************************************************************************)
C7_GsibTightens ==
    \A t \in DOMAIN calls :
        (/\ Ended(t) /\ calls[t].fn \in RWA /\ WellFormed(calls[t].fn)
         /\ AllOf(x, Positive)) =>
            LET fn == calls[t].fn
                g == df[GsibColumn]
                w == df[SpecWeight(fn)]
                zero == Eval(fn, x, WithGsib(df, ZeroColumn(Rows(df))), mins)
                less == calls[t].outcome.value < zero.value
            IN  /\ calls[t].outcome.kind = "return" /\ zero.kind = "return"
                /\ less <=> (SpecAddon(fn) * Weighted(w) > 0)
                /\ (/\ AllOf(g, NonNegative) /\ SomeOf(g, Positive)
                    /\ AllOf(w, NonNegative) /\ SomeOf(w, Positive)) => less

C7_Witness ==
    \E t \in DOMAIN calls :
        /\ Returned(t) /\ calls[t].fn = "arwa_cet1" /\ WellFormed("arwa_cet1")
        /\ Len(x) = 2 /\ AllOf(x, Positive)
        /\ AllOf(df[GsibColumn], NonNegative) /\ SomeOf(df[GsibColumn], Positive)
        /\ AllOf(df["a_rwa"], NonNegative) /\ SomeOf(df["a_rwa"], Positive)
        /\ calls[t].outcome.value
               < Eval("arwa_cet1", x, WithGsib(df, ZeroColumn(2)), mins).value

(***************************************************************************)
(* C8.  As claimed: with the resource column all zero the function returns *)
(* -sum_i (threshold + addon)*weight[i]*x[i], and that is <= 0 for every   *)
(* nonnegative balance vector and every positive threshold.                *)
(***************************************************************************)
C8_ZeroResourceNonPositive ==
    \A t \in DOMAIN calls :
        (/\ Ended(t) /\ WellFormed(calls[t].fn)
         /\ AllOf(df[SpecResource(calls[t].fn)], IsZero)) =>
            LET fn == calls[t].fn
            IN  /\ calls[t].outcome =
                       Return(-((SpecThreshold(fn) + SpecAddon(fn))
                                    * Weighted(df[SpecWeight(fn)])))
                /\ (AllOf(x, NonNegative) /\ SpecThreshold(fn) > 0)
                       => calls[t].outcome.value <= 0

(***************************************************************************)
(* C8, amended.  With the resource column all zero the function returns    *)
(* -sum_i (threshold + addon)*weight[i]*x[i]; that is <= 0 for nonnegative *)
(* balances and a positive threshold when, in addition, the risk (or       *)
(* leverage) weights and the GSIB contributions are nonnegative.           *)
(***************************************************************************)
C8_ZeroResource ==
    \A t \in DOMAIN calls :
        (/\ Ended(t) /\ WellFormed(calls[t].fn)
         /\ AllOf(df[SpecResource(calls[t].fn)], IsZero)) =>
            LET fn == calls[t].fn
            IN  /\ calls[t].outcome =
                       Return(-((SpecThreshold(fn) + SpecAddon(fn))
                                    * Weighted(df[SpecWeight(fn)])))
                /\ (/\ AllOf(x, NonNegative) /\ SpecThreshold(fn) > 0
                    /\ AllOf(df[SpecWeight(fn)], NonNegative)
                    /\ (fn \in RWA => AllOf(df[GsibColumn], NonNegative)))
                       => calls[t].outcome.value <= 0

C8_Witness ==
    \E t \in DOMAIN calls :
        /\ Returned(t) /\ calls[t].fn = "srwa_tc" /\ WellFormed("srwa_tc")
        /\ Len(x) = 2
        /\ AllOf(df["total_capital_resource"], IsZero)
        /\ AllOf(x, Positive)
        /\ AllOf(df["s_rwa"], Positive) /\ AllOf(df[GsibColumn], Positive)
        /\ calls[t].outcome.value < 0

(***************************************************************************)
(* C9.  A call is stateless and read-only: no step changes x, the table or *)
(* the minimums, and under any interleaving of two calls each call ends    *)
(* with the outcome it has when made alone.                                *)
(***************************************************************************)
C9_ReadOnlyReentrant ==
    [][/\ x' = x /\ df' = df /\ mins' = mins
       /\ \A t \in DOMAIN calls :
              calls'[t].pc = "done" =>
                  calls'[t].outcome = Eval(calls'[t].fn, x, df, mins)]_vars

C9_Witness ==
    /\ DOMAIN calls = {1, 2}
    /\ calls[1].pc = "constraint" /\ calls[1].i = 1 /\ calls[1].fn = "srwa_cet1"
    /\ calls[2].pc = "constraint" /\ calls[2].i = 1 /\ calls[2].fn = "lev_t1"

(***************************************************************************)
(* C10.  On misaligned inputs: when x has more entries than the table has  *)
(* rows the call ends in an index error and returns no value; when x has   *)
(* fewer, the call returns the value computed over only the first len(x)   *)
(* rows (add-on and constraint sum both ignore the rest).                   *)
(***************************************************************************)
C10_Misaligned ==
    \A t \in DOMAIN calls :
        (Ended(t) /\ Callable(calls[t].fn)) =>
            /\ Len(x) > Rows(df) => calls[t].outcome = IndexError
            /\ Len(x) < Rows(df) => calls[t].outcome = Return(SpecConstraint(calls[t].fn))

C10_Witness ==
    \E t \in DOMAIN calls :
        /\ Returned(t) /\ calls[t].fn = "srwa_tlac" /\ Callable("srwa_tlac")
        /\ Len(x) = 1 /\ Rows(df) = 2
        /\ df[GsibColumn][2] # 0 /\ df["s_rwa"][2] # 0 /\ df["TLAC_resource"][2] # 0
        /\ calls[t].outcome.value # 0

====
